---- MODULE Spec2Model ----
(***************************************************************************)
(* The floating-window registry of src/src/frontend/lib/window-manager.ts  *)
(* (class WindowManager) together with the windowing widget it commands.   *)
(* One action is one turn of the event loop: a public command, a widget    *)
(* callback, or a timer body.                                              *)
(***************************************************************************)
EXTENDS Integers, Sequences, FiniteSets, TLC

\* Number of widgets createWinBoxWindow creates in one behaviour.
MaxWindows == 3

\* Number of observers that may subscribe.
MaxSubscribers == 2

\* Number of event-loop turns followed in one behaviour.
MaxTurns == 7

Ids == 1..MaxWindows

Subscribers == 1..MaxSubscribers

\* No deferred state update is scheduled for an id.
NoUpdate == [scheduled |-> FALSE]

VARIABLES
    windows,            \* Map<string, WindowRecord>, in insertion order
    stateUpdateTimeouts,\* per id: the newState of the pending zero-delay timer
    followUp,           \* ids whose 50 ms updateActiveWindow timer is pending
    closeTimers,        \* ids whose 50 ms unforced on-close timer is pending
    initialized,        \* WindowManager.initialized
    focusCheckInterval, \* TRUE while the 100 ms interval is installed
    listeners,          \* Set<WindowCallback>
    wmin,               \* widget: winbox.min
    wdom,               \* widget: document.body.contains(winbox.window)
    nextId,             \* the id the next created widget gets
    published,          \* the snapshot handed to callbacks most recently
    last,               \* the turn that led to this state
    turns,              \* how many turns have run
    cleared,            \* ids that were tracked when closeAll was called
    subscribed,         \* observers that subscribed and did not unsubscribe
    orphans,            \* per id: pending zero-delay timers the map has lost
    renderer            \* the registry of src/src/renderer/lib/window-manager.ts

vars == <<windows, stateUpdateTimeouts, followUp, closeTimers, initialized,
          focusCheckInterval, listeners, wmin, wdom, nextId, published, last,
          turns, cleared, subscribed, orphans, renderer>>

----------------------------------------------------------------------------
(* The record map *)

WindowRecord(id, m, a) == [id |-> id, isMinimized |-> m, isActive |-> a]

RECURSIVE IndexOf(_, _)
IndexOf(w, id) ==
    IF w = <<>> THEN 0
    ELSE IF w[Len(w)].id = id THEN Len(w)
    ELSE IndexOf(SubSeq(w, 1, Len(w) - 1), id)

Has(w, id) == IndexOf(w, id) # 0

Get(w, id) == w[IndexOf(w, id)]

\* Map.set: an existing key keeps its position, a new key goes last.
MapSet(w, r) ==
    IF Has(w, r.id) THEN [w EXCEPT ![IndexOf(w, r.id)] = r] ELSE Append(w, r)

MapDelete(w, id) == SelectSeq(w, LAMBDA r : r.id # id)

TrackedIds(w) == {w[i].id : i \in 1..Len(w)}

ActiveIds(w) == {w[i].id : i \in {j \in 1..Len(w) : w[j].isActive}}

VisibleIds(w) == {w[i].id : i \in {j \in 1..Len(w) : ~w[j].isMinimized}}

getWindows(w) == w

----------------------------------------------------------------------------
(* Turn bookkeeping: which turn produced the state, how many notification *)
(* rounds it ran, and the turn on the same id that directly preceded it.  *)

ToggleOps == {"toggleMinimize", "toggleRestore", "toggleActivate"}

\* Turns that are timer bodies, and those of them that correct a record.
TimerOps == {"deferred", "drift", "driftRemoved", "followUp", "closeTimer"}

CorrectionOps == {"deferred", "drift", "driftRemoved"}

\* Turns in which a widget reports through onminimize or onrestore.
CallbackOps == {"onminimizeTrue", "onminimizeFalse",
                "onrestoreTrue", "onrestoreFalse"}

\* "minimizeAll": since minimizeAll only deferred updates and drift passes
\* have run.  "minimize": since minimize(cid) on a known id only timer bodies
\* have run.  "destroy": since destroy only timer bodies have run.
\* "activeCallback": a callback of id found its record active;
\* "activeCallbackToggle": the turn directly after that was a toggle of
\* another id (cid is the id of the callback).  "restoreMinimized": the
\* deferred update of id runs directly after onrestore(true) found its record
\* minimized; "onrestoreFalse": directly after onrestore(false).
After(op, id) ==
    IF last.id = id /\ op \in ToggleOps /\ last.op = "toggleMinimize"
    THEN "toggleMinimize"
    ELSE IF last.id = id /\ op = "deferred" /\ last.op = "toggleRestore"
    THEN "toggleRestore"
    ELSE IF last.id = id /\ op = "onminimizeFalse" /\ last.op = "onminimizeTrue"
    THEN "onminimizeTrue"
    ELSE IF last.id = id /\ op = "deferred" /\ last.op = "onminimizeFalse"
            /\ last.after = "onminimizeTrue"
    THEN "onminimizeTrueFalse"
    ELSE IF last.id = id /\ op = "subscribe" /\ last.op = "closeAll"
    THEN "closeAll"
    ELSE IF last.id = id /\ op = "deferred" /\ last.op = "onrestoreTrue"
            /\ Has(windows, id) /\ Get(windows, id).isMinimized
    THEN "restoreMinimized"
    ELSE IF last.id = id /\ op = "deferred" /\ last.op = "onrestoreFalse"
    THEN "onrestoreFalse"
    ELSE IF op \in CallbackOps /\ Has(windows, id) /\ Get(windows, id).isActive
    THEN "activeCallback"
    ELSE IF op \in ToggleOps /\ last.after = "activeCallback" /\ last.id # id
    THEN "activeCallbackToggle"
    ELSE IF op \in CorrectionOps
            /\ (last.op = "minimizeAll" \/ last.after = "minimizeAll")
    THEN "minimizeAll"
    ELSE IF op \in TimerOps
            /\ \/ last.op = "minimize" /\ Has(windows, last.id)
               \/ last.after = "minimize"
    THEN "minimize"
    ELSE IF op \in TimerOps /\ (last.op = "destroy" \/ last.after = "destroy")
    THEN "destroy"
    ELSE "none"

\* The id of the minimize call a "minimize" chain started with.
ChainId(op, id) ==
    IF After(op, id) = "activeCallbackToggle" THEN last.id
    ELSE IF After(op, id) # "minimize" THEN 0
    ELSE IF last.op = "minimize" THEN last.id ELSE last.cid

\* called: the listeners a notification round of the turn invoked.
\* raised: the turn ended with an exception leaving the public method.
Turn(op, id, rounds) ==
    [op |-> op, id |-> id, rounds |-> rounds, after |-> After(op, id),
     cid |-> ChainId(op, id), raised |-> FALSE,
     called |-> IF rounds = 0 THEN {} ELSE listeners]

----------------------------------------------------------------------------
(* Pure parts of the handlers *)

\* debouncedStateUpdate: the pending timer of id is replaced.
debouncedStateUpdate(sut, id, newState) ==
    [sut EXCEPT ![id] = [scheduled |-> TRUE,
                         isMinimized |-> newState.isMinimized,
                         isActive |-> newState.isActive]]

\* winbox.onminimize = (state) => ...
onminimize(w, sut, id, state) ==
    IF Has(w, id) /\ Get(w, id).isMinimized # state
    THEN debouncedStateUpdate(sut, id,
             [isMinimized |-> state,
              isActive |-> IF state THEN FALSE ELSE Get(w, id).isActive])
    ELSE sut

\* winbox.onrestore = (state) => ...
onrestore(w, sut, id, state) ==
    IF Has(w, id) /\ Get(w, id).isMinimized # ~state
    THEN debouncedStateUpdate(sut, id,
             [isMinimized |-> ~state,
              isActive |-> IF ~state THEN TRUE ELSE Get(w, id).isActive])
    ELSE sut

\* The body of the zero-delay timer of debouncedStateUpdate.
applyStateUpdate(w, id, newState) ==
    IF Has(w, id)
    THEN [w EXCEPT ![IndexOf(w, id)] =
             [@ EXCEPT !.isMinimized = newState.isMinimized,
                       !.isActive = newState.isActive]]
    ELSE w

\* init without "if (this.initialized) return".
init_always(ini, interval) == TRUE

\* init: the interval is installed unless initialized is set; the result
\* says whether an interval is installed afterwards.
init(ini, interval) == IF ini THEN interval ELSE TRUE

\* register: this.windows.set(id, {..., isMinimized: false, isActive: true})
registerRecord(w, id) == MapSet(w, WindowRecord(id, FALSE, TRUE))

\* register without its setTimeout.
scheduleFollowUp_never(f, id) == f

\* register: setTimeout(() => this.updateActiveWindow(id), 50)
scheduleFollowUp(f, id) == f \cup {id}

updateActiveWindow(w, activeId) ==
    [i \in 1..Len(w) |-> [w[i] EXCEPT !.isActive = (w[i].id = activeId)]]

\* minimize/close without the "if (record)" test.
hasRecord_always(w, id) == TRUE

\* minimize, close: const record = this.windows.get(id); if (record) ...
hasRecord(w, id) == Has(w, id)

isCurrentlyActive(w, id) == Get(w, id).isActive /\ ~Get(w, id).isMinimized

\* toggle, branch "currently active and visible - minimize it".
toggleMinimize(w, id) ==
    [i \in 1..Len(w) |->
        IF w[i].id = id THEN [w[i] EXCEPT !.isMinimized = TRUE, !.isActive = FALSE]
        ELSE IF ~w[i].isMinimized THEN [w[i] EXCEPT !.isActive = TRUE]
        ELSE [w[i] EXCEPT !.isActive = FALSE]]

\* toggle, minimize branch, up to the call of record.winbox.minimize().
toggleMinimizeRecord(w, id) ==
    [w EXCEPT ![IndexOf(w, id)] = [@ EXCEPT !.isMinimized = TRUE,
                                            !.isActive = FALSE]]

\* let otherActive of toggle
otherActive(w, id) == \E i \in 1..Len(w) : w[i].id # id /\ ~w[i].isMinimized

\* toggleRestore without "record.isMinimized = false".
toggleRestore_keepsMinimized(w, id) ==
    [i \in 1..Len(w) |->
        IF w[i].id = id THEN [w[i] EXCEPT !.isActive = TRUE]
        ELSE [w[i] EXCEPT !.isActive = FALSE]]

\* toggle, branch "not active or minimized - restore and focus".
toggleRestore(w, id) ==
    [i \in 1..Len(w) |->
        IF w[i].id = id THEN [w[i] EXCEPT !.isMinimized = FALSE, !.isActive = TRUE]
        ELSE [w[i] EXCEPT !.isActive = FALSE]]

\* closeAll without "this.windows.clear()".
closeAllWindows_noClear(w) == w

\* closeAll: this.windows.clear()
closeAllWindows(w) == <<>>

\* checkWindowStates without the isClosed branch.
checkWindowStates_noRemoval(w, min, dom) ==
    [i \in 1..Len(w) |-> [w[i] EXCEPT !.isMinimized = min[w[i].id]]]

\* checkWindowStates that also deactivates a record it finds minimized.
checkWindowStates_clearsActive(w, min, dom) ==
    LET kept == SelectSeq(w, LAMBDA r : dom[r.id])
    IN  [i \in 1..Len(kept) |->
            [kept[i] EXCEPT !.isMinimized = min[kept[i].id],
                            !.isActive = @ /\ ~min[kept[i].id]]]

\* checkWindowStates: the forEach over the records.
checkWindowStates(w, min, dom) ==
    LET kept == SelectSeq(w, LAMBDA r : dom[r.id])
    IN  [i \in 1..Len(kept) |-> [kept[i] EXCEPT !.isMinimized = min[kept[i].id]]]

\* needsUpdate set by the isClosed branch only.
needsUpdate_removalOnly(w, min, dom) ==
    \E i \in 1..Len(w) : ~dom[w[i].id]

\* checkWindowStates: let needsUpdate at the end of the forEach.
needsUpdate(w, min, dom) ==
    \E i \in 1..Len(w) : ~dom[w[i].id] \/ w[i].isMinimized # min[w[i].id]

\* subscribe: this.listeners.add(callback)
subscribe(ls, l) == ls \cup {l}

\* The returned function without "this.listeners.delete(callback)".
unsubscribe_keeps(ls, l) == ls

\* The function subscribe returns: this.listeners.delete(callback)
unsubscribe(ls, l) == ls \ {l}

----------------------------------------------------------------------------
(* The widget, as far as the registry uses it *)

\* winbox.minimize(): sets min and reports it through onminimize.
\* destroy: clearTimeout on every pending update, then the map is cleared.
clearStateUpdateTimeouts_keeps(sut) == sut

clearStateUpdateTimeouts(sut) == [i \in Ids |-> NoUpdate]

WidgetMinimizeSut(w, sut, min, id) ==
    IF min[id] THEN sut ELSE onminimize(w, sut, id, TRUE)

\* winbox.restore(): clears min and reports it through onrestore.
WidgetRestoreSut(w, sut, min, id) ==
    IF min[id] THEN onrestore(w, sut, id, TRUE) ELSE sut

----------------------------------------------------------------------------
(* The registry of src/src/renderer/lib/window-manager.ts, whose widget    *)
(* callbacks write the record and notify at once.  Its state is the record *)
(* r: windows (the map), wmin (winbox.min of its widgets), published (the  *)
(* snapshot handed out last), delivered (the snapshots handed out in the   *)
(* current turn), same (its widgets have reported what the widgets of the  *)
(* other registry reported).                                               *)

rendererNotify(r) ==
    [r EXCEPT !.published = getWindows(r.windows),
              !.delivered = Append(r.delivered, getWindows(r.windows))]

\* winbox.onminimize = (state) => ...
rendererOnminimize(r, id, state) ==
    IF Has(r.windows, id)
    THEN LET w == r.windows
             i == IndexOf(w, id)
             rec == [w[i] EXCEPT !.isMinimized = state,
                                 !.isActive = IF state THEN FALSE ELSE @]
         IN  rendererNotify([r EXCEPT !.windows = [w EXCEPT ![i] = rec]])
    ELSE r

\* winbox.onrestore = (state) => ...
rendererOnrestore(r, id, state) ==
    IF Has(r.windows, id)
    THEN LET w == r.windows
             i == IndexOf(w, id)
             rec == [w[i] EXCEPT !.isMinimized = ~state,
                                 !.isActive = IF ~state THEN TRUE ELSE @]
         IN  rendererNotify([r EXCEPT !.windows = [w EXCEPT ![i] = rec]])
    ELSE r

\* winbox.minimize(): sets min and reports it through onminimize.
rendererWidgetMinimize(r, id) ==
    IF r.wmin[id] THEN r
    ELSE rendererOnminimize([r EXCEPT !.wmin[id] = TRUE], id, TRUE)

\* winbox.restore(): clears min and reports it through onrestore.
rendererWidgetRestore(r, id) ==
    IF r.wmin[id]
    THEN rendererOnrestore([r EXCEPT !.wmin[id] = FALSE], id, TRUE)
    ELSE r

rendererRegister(r, id) ==
    rendererNotify([r EXCEPT !.windows = registerRecord(@, id),
                             !.wmin[id] = FALSE])

rendererUpdateActiveWindow(r, activeId) ==
    rendererNotify([r EXCEPT !.windows = updateActiveWindow(@, activeId)])

\* toggle: the minimize branch commands the widget before it writes.
rendererToggle(r, id) ==
    IF ~Has(r.windows, id) THEN r
    ELSE IF isCurrentlyActive(r.windows, id)
    THEN LET r1 == rendererWidgetMinimize(r, id)
             r2 == [r1 EXCEPT !.windows = toggleMinimize(@, id)]
         IN  IF otherActive(r1.windows, id) THEN r2 ELSE rendererNotify(r2)
    ELSE LET r1 == [r EXCEPT !.windows = toggleRestore(@, id)]
         IN  rendererNotify(rendererWidgetRestore(r1, id))

rendererMinimize(r, id) ==
    IF Has(r.windows, id) THEN rendererWidgetMinimize(r, id) ELSE r

\* minimizeAll: the forEach from record i on.
RECURSIVE rendererMinimizeAll(_, _)
rendererMinimizeAll(r, i) ==
    IF i > Len(r.windows) THEN r
    ELSE rendererMinimizeAll(IF r.windows[i].isMinimized THEN r
                             ELSE rendererWidgetMinimize(r, r.windows[i].id),
                             i + 1)

rendererCloseAll(r) ==
    rendererNotify([r EXCEPT !.windows = closeAllWindows(@)])

rendererCheckWindowStates(r, dom) ==
    IF needsUpdate(r.windows, r.wmin, dom)
    THEN rendererNotify([r EXCEPT !.windows = checkWindowStates(@, r.wmin, dom)])
    ELSE r

\* A new turn starts: nothing has been handed out in it yet.
StartTurn(r) == [r EXCEPT !.delivered = <<>>]

\* same stays set while both sets of widgets report the same changes, that
\* is, while their min flags agree.
Lockstep(r, min) == [r EXCEPT !.same = @ /\ r.wmin = min]

----------------------------------------------------------------------------
Init ==
    /\ windows = <<>>
    /\ stateUpdateTimeouts = [i \in Ids |-> NoUpdate]
    /\ followUp = {}
    /\ closeTimers = {}
    /\ initialized = FALSE
    /\ focusCheckInterval = FALSE
    /\ listeners = {}
    /\ wmin = [i \in Ids |-> FALSE]
    /\ wdom = [i \in Ids |-> FALSE]
    /\ nextId = 1
    /\ published = <<>>
    /\ last = [op |-> "init", id |-> 0, rounds |-> 0, after |-> "none",
               cid |-> 0, raised |-> FALSE, called |-> {}]
    /\ turns = 0
    /\ cleared = {}
    /\ subscribed = {}
    /\ orphans = [i \in Ids |-> <<>>]
    /\ renderer = [windows |-> <<>>, wmin |-> [i \in Ids |-> FALSE],
                   published |-> <<>>, delivered |-> <<>>, same |-> TRUE]

\* Every action is one turn of the event loop.
Tick == turns < MaxTurns /\ turns' = turns + 1

\* notifyListeners: every listener is called with getWindows().
Notify(w) == published' = getWindows(w)

\* createWinBoxWindow: a widget is created (shown, not minimized) and
\* registered under a fresh id; register runs init() first.
RegisterFrontend ==
    /\ Tick
    /\ UNCHANGED <<cleared, subscribed, orphans>>
    /\ nextId <= MaxWindows
    /\ LET id == nextId IN
        /\ wdom' = [wdom EXCEPT ![id] = TRUE]
        /\ wmin' = [wmin EXCEPT ![id] = FALSE]
        /\ nextId' = nextId + 1
        /\ initialized' = TRUE
        /\ focusCheckInterval' = init(initialized, focusCheckInterval)
        /\ windows' = registerRecord(windows, id)
        /\ followUp' = scheduleFollowUp(followUp, id)
        /\ Notify(windows')
        /\ last' = Turn("register", id, 1)
    /\ UNCHANGED <<stateUpdateTimeouts, closeTimers, listeners>>

Register == RegisterFrontend /\ UNCHANGED renderer

\* register(id, ...) with an id that is in the map: the id is the caller's,
\* and this.windows.set(id, ...) binds it to the new widget (shown, not
\* minimized) in the place the key already has.
Reregister(id) ==
    /\ Tick
    /\ UNCHANGED <<cleared, subscribed, orphans, renderer>>
    /\ Has(windows, id)
    /\ wdom' = [wdom EXCEPT ![id] = TRUE]
    /\ wmin' = [wmin EXCEPT ![id] = FALSE]
    /\ initialized' = TRUE
    /\ focusCheckInterval' = init(initialized, focusCheckInterval)
    /\ windows' = registerRecord(windows, id)
    /\ followUp' = scheduleFollowUp(followUp, id)
    /\ Notify(windows')
    /\ last' = Turn("register", id, 1)
    /\ UNCHANGED <<stateUpdateTimeouts, closeTimers, listeners, nextId>>

\* The 50 ms timer of register.
FollowUpFrontend(id) ==
    /\ Tick
    /\ UNCHANGED <<cleared, subscribed, orphans>>
    /\ id \in followUp
    /\ followUp' = followUp \ {id}
    /\ windows' = updateActiveWindow(windows, id)
    /\ Notify(windows')
    /\ last' = Turn("followUp", id, 1)
    /\ UNCHANGED <<stateUpdateTimeouts, closeTimers, initialized,
                   focusCheckInterval, listeners, wmin, wdom, nextId>>

FollowUp(id) == FollowUpFrontend(id) /\ UNCHANGED renderer

ToggleFrontend(id) ==
    /\ Tick
    /\ UNCHANGED <<cleared, subscribed, orphans>>
    /\ id < nextId
    /\ IF ~Has(windows, id)
       THEN /\ last' = Turn("toggleUnknown", id, 0)
            /\ UNCHANGED <<windows, stateUpdateTimeouts, wmin, published>>
       ELSE IF isCurrentlyActive(windows, id)
       THEN /\ windows' = toggleMinimize(windows, id)
            /\ wmin' = [wmin EXCEPT ![id] = TRUE]
            /\ stateUpdateTimeouts' =
                   WidgetMinimizeSut(windows', stateUpdateTimeouts, wmin, id)
            /\ IF otherActive(windows, id)
               THEN /\ UNCHANGED published
                    /\ last' = Turn("toggleMinimize", id, 0)
               ELSE /\ Notify(windows')
                    /\ last' = Turn("toggleMinimize", id, 1)
       ELSE /\ windows' = toggleRestore(windows, id)
            /\ wmin' = [wmin EXCEPT ![id] = FALSE]
            /\ stateUpdateTimeouts' =
                   WidgetRestoreSut(windows', stateUpdateTimeouts, wmin, id)
            /\ Notify(windows')
            /\ last' = Turn(IF Get(windows, id).isMinimized
                            THEN "toggleRestore" ELSE "toggleActivate", id, 1)
    /\ UNCHANGED <<followUp, closeTimers, initialized, focusCheckInterval,
                   listeners, wdom, nextId>>

Toggle(id) == ToggleFrontend(id) /\ UNCHANGED renderer

\* toggle(id) on a known id whose first widget command throws: minimize()
\* in the minimize branch, restore() or focus() in the other.  The method has
\* no try/catch, so the statements after the command do not run and the
\* exception leaves toggle.
ToggleFails(id) ==
    /\ Tick
    /\ UNCHANGED <<cleared, subscribed, orphans, renderer>>
    /\ Has(windows, id)
    /\ windows' = IF isCurrentlyActive(windows, id)
                  THEN toggleMinimizeRecord(windows, id)
                  ELSE toggleRestore(windows, id)
    /\ last' = [Turn("toggleFailed", id, 0) EXCEPT !.raised = TRUE]
    /\ UNCHANGED <<stateUpdateTimeouts, followUp, closeTimers, initialized,
                   focusCheckInterval, listeners, wmin, wdom, nextId, published>>

\* closeAll() when close(true) of the first widget throws: the forEach is
\* left, clear() and notifyListeners() do not run.
CloseAllFails ==
    /\ Tick
    /\ UNCHANGED <<cleared, subscribed, orphans, renderer>>
    /\ windows # <<>>
    /\ last' = [Turn("closeAllFailed", 0, 0) EXCEPT !.raised = TRUE]
    /\ UNCHANGED <<windows, stateUpdateTimeouts, followUp, closeTimers,
                   initialized, focusCheckInterval, listeners, wmin, wdom,
                   nextId, published>>

MinimizeFrontend(id) ==
    /\ Tick
    /\ UNCHANGED <<cleared, subscribed, orphans>>
    /\ id < nextId
    /\ IF hasRecord(windows, id)
       THEN /\ wmin' = [wmin EXCEPT ![id] = TRUE]
            /\ stateUpdateTimeouts' =
                   WidgetMinimizeSut(windows, stateUpdateTimeouts, wmin, id)
       ELSE UNCHANGED <<wmin, stateUpdateTimeouts>>
    /\ last' = Turn("minimize", id, 0)
    /\ UNCHANGED <<windows, followUp, closeTimers, initialized,
                   focusCheckInterval, listeners, wdom, nextId, published>>

Minimize(id) == MinimizeFrontend(id) /\ UNCHANGED renderer

MinimizeAllFrontend ==
    /\ Tick
    /\ UNCHANGED <<cleared, subscribed, orphans>>
    /\ LET ids == VisibleIds(windows) IN
        /\ wmin' = [i \in Ids |-> IF i \in ids THEN TRUE ELSE wmin[i]]
        /\ stateUpdateTimeouts' =
               [i \in Ids |-> IF i \in ids
                   THEN WidgetMinimizeSut(windows, stateUpdateTimeouts, wmin, i)[i]
                   ELSE stateUpdateTimeouts[i]]
    /\ last' = Turn("minimizeAll", 0, 0)
    /\ UNCHANGED <<windows, followUp, closeTimers, initialized,
                   focusCheckInterval, listeners, wdom, nextId, published>>

MinimizeAll == MinimizeAllFrontend /\ UNCHANGED renderer

\* close(id): winbox.close(true). The widget calls onclose(true), whose
\* 50 ms timer does nothing when force is set, and removes its element.
CloseFrontend(id) ==
    /\ Tick
    /\ UNCHANGED <<cleared, subscribed, orphans>>
    /\ id < nextId
    /\ IF hasRecord(windows, id)
       THEN wdom' = [wdom EXCEPT ![id] = FALSE]
       ELSE UNCHANGED wdom
    /\ last' = Turn("close", id, 0)
    /\ UNCHANGED <<windows, stateUpdateTimeouts, followUp, closeTimers,
                   initialized, focusCheckInterval, listeners, wmin, nextId,
                   published>>

Close(id) == CloseFrontend(id) /\ UNCHANGED renderer

CloseAllFrontend ==
    /\ Tick
    /\ UNCHANGED <<subscribed, orphans>>
    /\ cleared' = cleared \cup TrackedIds(windows)
    /\ wdom' = [i \in Ids |-> IF i \in TrackedIds(windows) THEN FALSE ELSE wdom[i]]
    /\ windows' = closeAllWindows(windows)
    /\ Notify(windows')
    /\ last' = Turn("closeAll", 0, 1)
    /\ UNCHANGED <<stateUpdateTimeouts, followUp, closeTimers, initialized,
                   focusCheckInterval, listeners, wmin, nextId>>

CloseAll == CloseAllFrontend /\ UNCHANGED renderer

\* subscribe: the callback is added and called with the current snapshot.
Subscribe(l) ==
    /\ Tick
    /\ UNCHANGED <<cleared, orphans, renderer>>
    /\ l \notin subscribed
    /\ subscribed' = subscribed \cup {l}
    /\ listeners' = subscribe(listeners, l)
    /\ published' = getWindows(windows)
    /\ last' = [Turn("subscribe", 0, 0) EXCEPT !.called = {l}]
    /\ UNCHANGED <<windows, stateUpdateTimeouts, followUp, closeTimers,
                   initialized, focusCheckInterval, wmin, wdom, nextId>>

\* The function subscribe returned is called.
Unsubscribe(l) ==
    /\ Tick
    /\ UNCHANGED <<cleared, orphans, renderer>>
    /\ l \in subscribed
    /\ subscribed' = subscribed \ {l}
    /\ listeners' = unsubscribe(listeners, l)
    /\ last' = Turn("unsubscribe", 0, 0)
    /\ UNCHANGED <<windows, stateUpdateTimeouts, followUp, closeTimers,
                   initialized, focusCheckInterval, wmin, wdom, nextId,
                   published>>

\* The zero-delay timer set by debouncedStateUpdate.
DeferredUpdateFrontend(id) ==
    /\ Tick
    /\ UNCHANGED <<cleared, subscribed, orphans>>
    /\ stateUpdateTimeouts[id].scheduled
    /\ windows' = applyStateUpdate(windows, id, stateUpdateTimeouts[id])
    /\ stateUpdateTimeouts' = [stateUpdateTimeouts EXCEPT ![id] = NoUpdate]
    /\ IF windows' # windows
       THEN /\ Notify(windows')
            /\ last' = Turn("deferred", id, 1)
       ELSE /\ UNCHANGED published
            /\ last' = Turn("deferred", id, 0)
    /\ UNCHANGED <<followUp, closeTimers, initialized, focusCheckInterval,
                   listeners, wmin, wdom, nextId>>

DeferredUpdate(id) == DeferredUpdateFrontend(id) /\ UNCHANGED renderer

\* The zero-delay timer of id runs while no older timer of id is pending
\* (timers of equal delay fire in the order they were set).
DeferredInOrder(id) == orphans[id] = <<>> /\ DeferredUpdate(id)

\* The zero-delay timer of id runs, changes the record and notifies; a
\* listener flips the widget of id from inside the round, the widget reports
\* it through onminimize, and debouncedStateUpdate sets a new timer and map
\* entry.  Back in the timer body, stateUpdateTimeouts.delete(id) removes the
\* entry of the new timer, which stays pending.
DeferredReentrant(id) ==
    /\ Tick
    /\ UNCHANGED <<cleared, subscribed, renderer>>
    /\ stateUpdateTimeouts[id].scheduled /\ orphans[id] = <<>>
    /\ listeners # {} /\ wdom[id]
    /\ windows' = applyStateUpdate(windows, id, stateUpdateTimeouts[id])
    /\ windows' # windows
    /\ Notify(windows')
    /\ wmin' = [wmin EXCEPT ![id] = ~wmin[id]]
    /\ LET sut == onminimize(windows', [stateUpdateTimeouts EXCEPT ![id] = NoUpdate],
                             id, ~wmin[id])
       IN  /\ orphans' = [orphans EXCEPT ![id] =
                             IF sut[id].scheduled THEN <<sut[id]>> ELSE <<>>]
           /\ stateUpdateTimeouts' = [sut EXCEPT ![id] = NoUpdate]
    /\ last' = Turn("deferred", id, 1)
    /\ UNCHANGED <<followUp, closeTimers, initialized, focusCheckInterval,
                   listeners, wdom, nextId>>

\* A zero-delay timer that is no longer in the map runs: the same body, and
\* its stateUpdateTimeouts.delete(id) removes the entry of whatever newer
\* timer the map holds for id, which stays pending.
OrphanUpdate(id) ==
    /\ Tick
    /\ UNCHANGED <<cleared, subscribed, renderer>>
    /\ orphans[id] # <<>>
    /\ windows' = applyStateUpdate(windows, id, Head(orphans[id]))
    /\ orphans' = [orphans EXCEPT ![id] =
                      IF stateUpdateTimeouts[id].scheduled
                      THEN Append(Tail(@), stateUpdateTimeouts[id])
                      ELSE Tail(@)]
    /\ stateUpdateTimeouts' = [stateUpdateTimeouts EXCEPT ![id] = NoUpdate]
    /\ IF windows' # windows
       THEN /\ Notify(windows')
            /\ last' = Turn("deferred", id, 1)
       ELSE /\ UNCHANGED published
            /\ last' = Turn("deferred", id, 0)
    /\ UNCHANGED <<followUp, closeTimers, initialized, focusCheckInterval,
                   listeners, wmin, wdom, nextId>>

\* One tick of the 100 ms interval installed by init().
DriftPass ==
    /\ UNCHANGED <<cleared, subscribed, orphans>>
    /\ focusCheckInterval
    /\ windows' = checkWindowStates(windows, wmin, wdom)
    /\ LET op == IF \E i \in TrackedIds(windows) : ~wdom[i]
                 THEN "driftRemoved" ELSE "drift"
       IN  IF needsUpdate(windows, wmin, wdom)
           THEN /\ Notify(windows')
                /\ last' = Turn(op, 0, 1)
           ELSE /\ UNCHANGED published
                /\ last' = Turn(op, 0, 0)
    /\ UNCHANGED <<stateUpdateTimeouts, followUp, closeTimers, initialized,
                   focusCheckInterval, listeners, wmin, wdom, nextId>>

DriftCheck == Tick /\ DriftPass /\ UNCHANGED renderer

\* The interval keeps firing after the last command of the behaviour.
DriftCheckFree == UNCHANGED <<turns, renderer>> /\ DriftPass

\* The 50 ms timer of an unforced onclose: checkClosed, then unregister.
CloseTimer(id) ==
    /\ Tick
    /\ UNCHANGED <<cleared, subscribed, orphans, renderer>>
    /\ id \in closeTimers
    /\ closeTimers' = closeTimers \ {id}
    /\ IF ~wdom[id]
       THEN /\ windows' = MapDelete(windows, id)
            /\ Notify(windows')
            /\ last' = Turn("closeTimer", id, 1)
       ELSE /\ UNCHANGED <<windows, published>>
            /\ last' = Turn("closeTimer", id, 0)
    /\ UNCHANGED <<stateUpdateTimeouts, followUp, initialized,
                   focusCheckInterval, listeners, wmin, wdom, nextId>>

destroy ==
    /\ Tick
    /\ UNCHANGED <<cleared, subscribed, orphans, renderer>>
    /\ focusCheckInterval' = FALSE
    /\ stateUpdateTimeouts' = clearStateUpdateTimeouts(stateUpdateTimeouts)
    /\ last' = Turn("destroy", 0, 0)
    /\ UNCHANGED <<windows, followUp, closeTimers, initialized, listeners,
                   wmin, wdom, nextId, published>>

----------------------------------------------------------------------------
(* What the user does to a widget directly *)

\* The widget changes its minimized state and reports it: onminimize(state).
OnMinimizeFrontend(id, state) ==
    /\ Tick
    /\ UNCHANGED <<cleared, subscribed, orphans>>
    /\ id < nextId /\ wdom[id]
    /\ wmin[id] # state
    /\ wmin' = [wmin EXCEPT ![id] = state]
    /\ stateUpdateTimeouts' = onminimize(windows, stateUpdateTimeouts, id, state)
    /\ last' = Turn(IF state THEN "onminimizeTrue" ELSE "onminimizeFalse", id, 0)
    /\ UNCHANGED <<windows, followUp, closeTimers, initialized,
                   focusCheckInterval, listeners, wdom, nextId, published>>

OnMinimize(id, state) == OnMinimizeFrontend(id, state) /\ UNCHANGED renderer

\* The widget changes its restored state and reports it: onrestore(state).
OnRestoreFrontend(id, state) ==
    /\ Tick
    /\ UNCHANGED <<cleared, subscribed, orphans>>
    /\ id < nextId /\ wdom[id]
    /\ wmin[id] # ~state
    /\ wmin' = [wmin EXCEPT ![id] = ~state]
    /\ stateUpdateTimeouts' = onrestore(windows, stateUpdateTimeouts, id, state)
    /\ last' = Turn(IF state THEN "onrestoreTrue" ELSE "onrestoreFalse", id, 0)
    /\ UNCHANGED <<windows, followUp, closeTimers, initialized,
                   focusCheckInterval, listeners, wdom, nextId, published>>

OnRestore(id, state) == OnRestoreFrontend(id, state) /\ UNCHANGED renderer

\* The widget's own close control: onclose(undefined), element removed.
OnClose(id) ==
    /\ Tick
    /\ UNCHANGED <<cleared, subscribed, orphans, renderer>>
    /\ id < nextId /\ wdom[id]
    /\ wdom' = [wdom EXCEPT ![id] = FALSE]
    /\ closeTimers' = closeTimers \cup {id}
    /\ last' = Turn("onclose", id, 0)
    /\ UNCHANGED <<windows, stateUpdateTimeouts, followUp, initialized,
                   focusCheckInterval, listeners, wmin, nextId, published>>

\* The element leaves the document without any callback.
RemoveElement(id) ==
    /\ Tick
    /\ UNCHANGED <<cleared, subscribed, orphans, renderer>>
    /\ id < nextId /\ wdom[id]
    /\ wdom' = [wdom EXCEPT ![id] = FALSE]
    /\ last' = Turn("removeElement", id, 0)
    /\ UNCHANGED <<windows, stateUpdateTimeouts, followUp, closeTimers,
                   initialized, focusCheckInterval, listeners, wmin, nextId,
                   published>>

----------------------------------------------------------------------------
(* Both registries are given the same commands and widget events *)

RegisterBoth ==
    /\ RegisterFrontend
    /\ renderer' = Lockstep(rendererRegister(StartTurn(renderer), nextId), wmin')

FollowUpBoth(id) ==
    /\ FollowUpFrontend(id)
    /\ renderer' = Lockstep(rendererUpdateActiveWindow(StartTurn(renderer), id),
                            wmin')

ToggleBoth(id) ==
    /\ ToggleFrontend(id)
    /\ renderer' = Lockstep(rendererToggle(StartTurn(renderer), id), wmin')

MinimizeBoth(id) ==
    /\ MinimizeFrontend(id)
    /\ renderer' = Lockstep(rendererMinimize(StartTurn(renderer), id), wmin')

MinimizeAllBoth ==
    /\ MinimizeAllFrontend
    /\ renderer' = Lockstep(rendererMinimizeAll(StartTurn(renderer), 1), wmin')

CloseBoth(id) ==
    /\ CloseFrontend(id)
    /\ renderer' = StartTurn(renderer)

CloseAllBoth ==
    /\ CloseAllFrontend
    /\ renderer' = rendererCloseAll(StartTurn(renderer))

\* Only the frontend registry has deferred updates.
DeferredUpdateBoth(id) ==
    /\ DeferredUpdateFrontend(id)
    /\ renderer' = StartTurn(renderer)

DriftCheckBoth ==
    /\ Tick
    /\ DriftPass
    /\ renderer' = rendererCheckWindowStates(StartTurn(renderer), wdom)

OnMinimizeBoth(id, state) ==
    /\ OnMinimizeFrontend(id, state)
    /\ renderer.wmin[id] # state
    /\ renderer' = Lockstep(rendererOnminimize(
                       [StartTurn(renderer) EXCEPT !.wmin[id] = state], id, state),
                       wmin')

OnRestoreBoth(id, state) ==
    /\ OnRestoreFrontend(id, state)
    /\ renderer.wmin[id] # ~state
    /\ renderer' = Lockstep(rendererOnrestore(
                       [StartTurn(renderer) EXCEPT !.wmin[id] = ~state], id, state),
                       wmin')

----------------------------------------------------------------------------
Next ==
    \/ Register
    \/ \E id \in Ids : FollowUp(id)
    \/ \E id \in Ids : Toggle(id)
    \/ \E id \in Ids : Minimize(id)
    \/ MinimizeAll
    \/ \E id \in Ids : Close(id)
    \/ CloseAll
    \/ \E l \in Subscribers : Subscribe(l)
    \/ \E l \in Subscribers : Unsubscribe(l)
    \/ \E id \in Ids : DeferredUpdate(id)
    \/ DriftCheck
    \/ \E id \in Ids : CloseTimer(id)
    \/ destroy
    \/ \E id \in Ids, state \in BOOLEAN : OnMinimize(id, state)
    \/ \E id \in Ids, state \in BOOLEAN : OnRestore(id, state)
    \/ \E id \in Ids : OnClose(id)
    \/ \E id \in Ids : RemoveElement(id)

Spec == Init /\ [][Next]_vars

\* Only register and toggle calls, and the timers they start.
NextRegisterToggle ==
    \/ Register
    \/ \E id \in Ids : FollowUp(id)
    \/ \E id \in Ids : Toggle(id)

SpecRegisterToggle == Init /\ [][NextRegisterToggle]_vars

\* Windows are closed through close(id) only, and the interval keeps firing.
NextClose ==
    \/ Register
    \/ \E id \in Ids : FollowUp(id)
    \/ \E id \in Ids : Toggle(id)
    \/ \E id \in Ids : Close(id)
    \/ DriftCheckFree

SpecClose == Init /\ [][NextClose]_vars /\ WF_vars(DriftCheckFree)

\* register is called with any id, fresh or present.
NextReuse ==
    \/ Register
    \/ \E id \in Ids : Reregister(id)
    \/ \E id \in Ids : FollowUp(id)
    \/ \E id \in Ids : Toggle(id)

SpecReuse == Init /\ [][NextReuse]_vars

\* A subscriber acts on a widget from inside a notification round.
NextReentrant ==
    \/ Register
    \/ \E id \in Ids : FollowUp(id)
    \/ \E l \in Subscribers : Subscribe(l)
    \/ \E id \in Ids, state \in BOOLEAN : OnMinimize(id, state)
    \/ \E id \in Ids : DeferredInOrder(id)
    \/ \E id \in Ids : DeferredReentrant(id)
    \/ \E id \in Ids : OrphanUpdate(id)
    \/ DriftCheck

SpecReentrant == Init /\ [][NextReentrant]_vars

\* Widget commands may throw.
NextFailure ==
    \/ Register
    \/ \E id \in Ids : FollowUp(id)
    \/ \E l \in Subscribers : Subscribe(l)
    \/ \E id \in Ids : Toggle(id)
    \/ \E id \in Ids : ToggleFails(id)
    \/ CloseAll
    \/ CloseAllFails

SpecFailure == Init /\ [][NextFailure]_vars

NextBoth ==
    \/ RegisterBoth
    \/ \E id \in Ids : FollowUpBoth(id)
    \/ \E id \in Ids : ToggleBoth(id)
    \/ \E id \in Ids : MinimizeBoth(id)
    \/ MinimizeAllBoth
    \/ \E id \in Ids : CloseBoth(id)
    \/ CloseAllBoth
    \/ \E id \in Ids : DeferredUpdateBoth(id)
    \/ DriftCheckBoth
    \/ \E id \in Ids, state \in BOOLEAN : OnMinimizeBoth(id, state)
    \/ \E id \in Ids, state \in BOOLEAN : OnRestoreBoth(id, state)

SpecBoth == Init /\ [][NextBoth]_vars

----------------------------------------------------------------------------
(* Properties *)

\* No follow-up pass and no deferred state update is pending.
Settled ==
    /\ followUp = {}
    /\ \A id \in Ids : ~stateUpdateTimeouts[id].scheduled

SoleActiveVisible(w, id) ==
    /\ Has(w, id)
    /\ ActiveIds(w) = {id}
    /\ ~Get(w, id).isMinimized

\* C1: after any sequence of register and toggle calls, once the follow-up
\* passes and deferred updates have run, at most one record is active.
C1_SingleActiveWhenSettled ==
    Settled => Cardinality(ActiveIds(windows)) <= 1

\* C2: in every reachable state every minimized record is inactive.
C2_MinimizedImpliesInactive ==
    \A i \in 1..Len(windows) : windows[i].isMinimized => ~windows[i].isActive

\* C3: while somebody is subscribed, every turn that changes the records
\* ends with the subscribers holding a snapshot that shows the change.
C3_EveryChangePublished ==
    listeners # {} => published = getWindows(windows)

\* C4: when onminimize(true) and then onminimize(false) fire for a record
\* before its deferred update runs, the deferred update fires exactly one
\* notification and that snapshot shows the record not minimized.
C4_DebounceCoalescing ==
    \A id \in Ids :
        (/\ last.op = "deferred" /\ last.id = id
         /\ last.after = "onminimizeTrueFalse"
         /\ Has(windows, id))
        => /\ last.rounds = 1
           /\ Has(published, id)
           /\ ~Get(published, id).isMinimized

\* C5: the snapshot notified by register shows the new record active and
\* not minimized and no other record active.
C5_RegisterSoleActive ==
    last.op = "register"
    => /\ SoleActiveVisible(published, last.id)
       /\ SoleActiveVisible(windows, last.id)

\* C6: toggle on an active, visible record minimizes it and leaves exactly
\* one other record active, a visible one, when another visible record
\* exists, and no record active otherwise.
C6_ToggleMinimizePromotesOne ==
    last.op = "toggleMinimize"
    => /\ Has(windows, last.id)
       /\ Get(windows, last.id).isMinimized
       /\ ~Get(windows, last.id).isActive
       /\ wmin[last.id]
       /\ IF VisibleIds(windows) # {}
          THEN /\ Cardinality(ActiveIds(windows)) = 1
               /\ ActiveIds(windows) \subseteq VisibleIds(windows)
          ELSE ActiveIds(windows) = {}

\* C7: toggle on a minimized record makes it the only active record and
\* not minimized, also after the deferred update that was pending for it
\* has run.
C7_ToggleMinimizedSoleActive ==
    \A id \in Ids :
        (/\ last.id = id
         /\ \/ last.op = "toggleRestore"
            \/ last.op = "deferred" /\ last.after = "toggleRestore")
        => SoleActiveVisible(windows, id)

\* C8: two toggles of the same record in direct succession, the first one
\* finding it active and visible, leave it not minimized and leave some
\* record active.
C8_DoubleToggle ==
    \A id \in Ids :
        (last.op \in ToggleOps /\ last.id = id /\ last.after = "toggleMinimize")
        => /\ Has(windows, id)
           /\ ~Get(windows, id).isMinimized
           /\ ActiveIds(windows) # {}

C8_Witness ==
    /\ last.op \in ToggleOps
    /\ last.after = "toggleMinimize"
    /\ Len(windows) >= 2
    /\ ~Get(windows, last.id).isMinimized

\* C9: right after closeAll the registry is empty, so a new subscriber is
\* handed the empty sequence, and from then on neither the registry nor any
\* notified snapshot holds an id that was tracked when closeAll was called.
C9_CloseAllClears ==
    /\ last.op = "closeAll" => getWindows(windows) = <<>> /\ published = <<>>
    /\ (last.op = "subscribe" /\ last.after = "closeAll") => published = <<>>
    /\ TrackedIds(windows) \cap cleared = {}
    /\ TrackedIds(published) \cap cleared = {}

C9_Witness ==
    /\ last.op \in {"followUp", "closeTimer"}
    /\ last.id \in cleared
    /\ last.rounds = 1
    /\ windows # <<>>

\* C10: after a drift-correction pass no record whose element has left the
\* document is in the registry, and a pass that removed such a record fired
\* exactly one notification.
C10_DriftSelfHealing ==
    last.op \in {"drift", "driftRemoved"}
    => /\ \A id \in TrackedIds(windows) : wdom[id]
       /\ last.op = "driftRemoved"
          => last.rounds = 1 /\ published = getWindows(windows)

C10_Witness ==
    /\ last.op = "driftRemoved"
    /\ last.rounds = 1
    /\ \E id \in Ids : id < nextId /\ ~wdom[id] /\ ~Has(windows, id)
                        /\ id \notin closeTimers /\ id \notin cleared

\* C11: when windows are closed through close(id) only, no notified
\* snapshot holds a record whose widget has been closed.
C11_NoClosedRecordPublished ==
    last.rounds = 1 => \A id \in TrackedIds(published) : wdom[id]

\* C12: a record whose widget was closed by close(id) is eventually removed
\* from the registry, given that the interval keeps firing.
C12_ClosedEventuallyRemoved ==
    \A id \in Ids : (Has(windows, id) /\ ~wdom[id]) ~> ~Has(windows, id)

C12_Witness ==
    /\ last.op = "driftRemoved"
    /\ \E id \in Ids : id < nextId /\ ~wdom[id] /\ ~Has(windows, id)
    /\ windows # <<>>

\* C13: toggle, minimize and close on an id that has no record command no
\* widget, change no record, schedule nothing and notify nobody.
C13_UnknownIdNoOp ==
    [][(/\ last'.op \in ToggleOps \cup {"toggleUnknown", "minimize", "close"}
        /\ ~Has(windows, last'.id))
       => /\ windows' = windows
          /\ wmin' = wmin
          /\ wdom' = wdom
          /\ stateUpdateTimeouts' = stateUpdateTimeouts
          /\ followUp' = followUp
          /\ closeTimers' = closeTimers
          /\ published' = published
          /\ last'.rounds = 0]_vars

C13_Witness ==
    /\ last.op \in {"toggleUnknown", "minimize", "close"}
    /\ ~Has(windows, last.id)
    /\ windows # <<>>

\* C14: subscribe calls the new callback at once with the current snapshot;
\* every notification round calls exactly the callbacks that subscribed and
\* have not unsubscribed, with the current snapshot; unsubscribe calls nobody.
C14_SubscribeDelivery ==
    /\ last.op = "subscribe"
       => /\ Cardinality(last.called) = 1
          /\ last.called \subseteq subscribed
          /\ published = getWindows(windows)
    /\ last.rounds = 1
       => /\ last.called = subscribed
          /\ subscribed # {} => published = getWindows(windows)
    /\ last.op = "unsubscribe" => last.called = {}

C14_Witness ==
    /\ last.rounds = 1
    /\ last.called # {}
    /\ last.called # Subscribers
    /\ windows # <<>>

\* C15: register runs one notification round itself and leaves one
\* follow-up pass pending; that pass runs one notification round and leaves
\* none pending, so a registration notifies exactly twice.
C15_RegisterNotifiesTwice ==
    /\ last.op = "register"
       => /\ last.rounds = 1
          /\ published = getWindows(windows)
          /\ last.id \in followUp
    /\ last.op = "followUp"
       => /\ last.rounds = 1
          /\ published = getWindows(windows)
          /\ last.id \notin followUp
    /\ \A id \in followUp : id < nextId

C15_Witness ==
    /\ last.op = "followUp"
    /\ last.rounds = 1
    /\ Has(windows, last.id)
    /\ Len(windows) >= 2

\* Nothing is left for a deferred update or a drift pass to do.
Corrected ==
    /\ \A id \in Ids : ~stateUpdateTimeouts[id].scheduled
    /\ ~needsUpdate(windows, wmin, wdom)

\* C16: minimizeAll commands the widget of every record that is not
\* minimized, and once the deferred updates and drift passes that follow it
\* have nothing left to do, every record is minimized and none is active.
C16_MinimizeAllConverges ==
    /\ last.op = "minimizeAll"
       => \A id \in VisibleIds(windows) : wmin[id]
    /\ (last.after = "minimizeAll" /\ Corrected)
       => /\ VisibleIds(windows) = {}
          /\ ActiveIds(windows) = {}

\* C17: after minimize(id) on a known id, once the timers have run (no
\* deferred update and no follow-up pass pending for id, record and widget
\* agree), the record is minimized and not active.
C17_MinimizeSticks ==
    \A id \in Ids :
        (/\ last.after = "minimize" /\ last.cid = id
         /\ Has(windows, id) /\ wdom[id]
         /\ ~stateUpdateTimeouts[id].scheduled
         /\ id \notin followUp
         /\ Get(windows, id).isMinimized = wmin[id])
        => /\ Get(windows, id).isMinimized
           /\ ~Get(windows, id).isActive

C19_IdUniqueness ==
    [][/\ \A i, j \in 1..Len(windows') :
              windows'[i].id = windows'[j].id => i = j
       /\ (last'.op = "register" /\ Has(windows, last'.id))
          => Get(windows', last'.id) = Get(windows, last'.id)]_vars

\* No timer of the registry is pending and a drift pass would change
\* nothing: without a further command the records stay as they are.
Quiescent ==
    /\ Settled
    /\ closeTimers = {}
    /\ ~needsUpdate(windows, wmin, wdom)

\* C20: when a deferred update or a drift pass has run and the registry has
\* nothing left to correct, at most one record is active.
C20_ActiveConverges ==
    (last.op \in CorrectionOps /\ Quiescent)
        => Cardinality(ActiveIds(windows)) <= 1

\* The zero-delay timers pending for id.
PendingUpdates(id) ==
    orphans[id] \o (IF stateUpdateTimeouts[id].scheduled
                    THEN <<stateUpdateTimeouts[id]>> ELSE <<>>)

\* C21: at any moment at most one deferred update is pending for an id,
\* also after a callback that a subscriber fired from inside the round of
\* the previous update.
C21_OnePendingPerId ==
    \A id \in Ids : Len(PendingUpdates(id)) <= 1

\* C22: a drift pass keeps exactly the records whose element is in the
\* document, sets the isMinimized of each to the widget's min flag, and runs
\* one notification round with the resulting snapshot if it removed or
\* corrected a record, and none otherwise.
C22_DriftPassBatched ==
    [][last'.op \in {"drift", "driftRemoved"}
       => /\ TrackedIds(windows') = {id \in TrackedIds(windows) : wdom[id]}
          /\ \A id \in TrackedIds(windows') :
                 Get(windows', id).isMinimized = wmin[id]
          /\ last'.rounds = (IF windows' # windows THEN 1 ELSE 0)
          /\ last'.rounds = 1 => published' = getWindows(windows')
          /\ last'.rounds = 0 => published' = published]_vars

\* A pass removed a record, left another one minimized, and notified once.
C22_Witness ==
    /\ last.op = "driftRemoved"
    /\ last.rounds = 1
    /\ published = getWindows(windows)
    /\ \E id \in TrackedIds(windows) : Get(windows, id).isMinimized /\ wmin[id]

\* C28: a drift pass leaves the isActive of every record it keeps as it
\* was: it promotes no record when it removes the active one and does not
\* deactivate a record it corrects to minimized.
C28_DriftKeepsActive ==
    [][last'.op \in {"drift", "driftRemoved"}
       => \A id \in TrackedIds(windows') :
              /\ Has(windows, id)
              /\ Get(windows', id).isActive = Get(windows, id).isActive]_vars

\* A pass that corrected something left a minimized record active.
C28_Witness ==
    /\ last.op = "drift"
    /\ last.rounds = 1
    /\ \E id \in TrackedIds(windows) :
           /\ wmin[id]
           /\ Get(windows, id).isMinimized
           /\ Get(windows, id).isActive

\* C29: initialized is never reset; the first register installs the
\* interval and a later register changes nothing about it, so once destroy
\* has cleared it no register installs it again and no drift pass runs.
C29_IntervalStartedOnce ==
    [][/\ initialized => initialized'
       /\ last'.op = "register"
          => /\ initialized'
             /\ ~initialized => focusCheckInterval'
             /\ initialized => focusCheckInterval' = focusCheckInterval
       /\ (initialized /\ ~focusCheckInterval)
          => /\ ~focusCheckInterval'
             /\ last'.op \notin {"drift", "driftRemoved"}]_vars

\* A register after destroy, with the record of a closed widget still there.
C29_Witness ==
    /\ last.op = "register"
    /\ initialized /\ ~focusCheckInterval
    /\ \E id \in TrackedIds(windows) : ~wdom[id]

\* C25: the follow-up pass of register(id) does not make id active when its
\* record is minimized or gone, and it leaves active every record that
\* became active after id was registered (a record registered later, or any
\* other active record once id is no longer active).
C25_FollowUpKeepsLaterState ==
    [][last'.op = "followUp"
       => LET id == last'.id IN
          /\ (Has(windows, id) /\ Get(windows, id).isMinimized)
             => ~Get(windows', id).isActive
          /\ ~Has(windows, id) => windows' = windows
          /\ \A other \in ActiveIds(windows) \ {id} :
                 (other > id \/ id \notin ActiveIds(windows))
                 => other \in ActiveIds(windows')]_vars

\* C26: when a callback of id found its record active and a toggle of
\* another id then deactivated it, the deferred update of that callback
\* does not make the record active again.
C26_NoStaleFocus ==
    [][(/\ last'.op = "deferred"
        /\ last.after = "activeCallbackToggle"
        /\ last.cid = last'.id
        /\ Has(windows, last'.id)
        /\ ~Get(windows, last'.id).isActive)
       => ~Get(windows', last'.id).isActive]_vars

\* C27: when a widget reports onrestore(true) for a minimized record, the
\* record is the only active record and not minimized once the deferred
\* update has run; after onrestore(false) and its deferred update the record
\* is not both minimized and active.
C27_WidgetRestoreSoleActive ==
    \A id \in Ids :
        (last.op = "deferred" /\ last.id = id /\ Has(windows, id))
        => /\ last.after = "restoreMinimized" => SoleActiveVisible(windows, id)
           /\ last.after = "onrestoreFalse"
              => ~(Get(windows, id).isMinimized /\ Get(windows, id).isActive)

\* C24: no command lets an exception of a widget command leave the
\* registry, and after a command in which a widget command failed the
\* subscribers hold the records as they are.
C24_FailuresSwallowed ==
    /\ ~last.raised
    /\ (last.op \in {"toggleFailed", "closeAllFailed"} /\ listeners # {})
       => published = getWindows(windows)

\* C23: in both registries every snapshot handed out during a turn shows
\* the records as the turn leaves them: no round happens while a command has
\* written the record it is about but not yet the others.
C23_NotificationsAtomic ==
    /\ last.rounds = 1 => published = getWindows(windows)
    /\ \A i \in 1..Len(renderer.delivered) :
           renderer.delivered[i] = getWindows(renderer.windows)

\* C30: given the same commands and the same widget reports, the two
\* registries hold the same records once no follow-up pass and no deferred
\* update is pending.
C30_RegistriesAgree ==
    (Settled /\ renderer.same) => renderer.windows = windows

====
